---- MODULE Spec2Model ----
(***************************************************************************)
(* Model of the request-dispatch core of hreq: the Router (endpoint        *)
(* registration and dispatch, src/server/router.rs), the middleware chain  *)
(* it builds and runs, and the unified Error type (src/error.rs).          *)
(*                                                                         *)
(* Strings are sequences of one-character strings, so that prefix          *)
(* stripping, splitting and parsing are computed rather than assumed.      *)
(***************************************************************************)
EXTENDS Integers, Sequences, FiniteSets, TLC

VARIABLES prefix, endpoints, route, last, log, native, err, class, epc,
          tasks, either, pm

vars == <<prefix, endpoints, route, last, log, native, err, class, epc,
          tasks, either, pm>>

errVars == <<native, err, class, epc>>

\* everything but the router
offRouter == <<native, err, class, epc, tasks, either, pm>>

(***************************************************************************)
(* Bounds                                                                  *)
(***************************************************************************)
MaxEndpoints == 2

MaxMw == 2

MaxRegs == 2

MaxCalls == 3

MaxPathLen == 4

MaxOrderRegs == 4

(***************************************************************************)
(* Option values                                                           *)
(***************************************************************************)
None == [some |-> FALSE]

Some(v) == [some |-> TRUE, v |-> v]

(***************************************************************************)
(* Strings                                                                 *)
(***************************************************************************)
Sep == "/"

\* str.starts_with(pat)
starts_with(s, pat) ==
  /\ Len(pat) <= Len(s)
  /\ SubSeq(s, 1, Len(pat)) = pat

\* index (1-based) of the first occurrence of pat in s, 0 when there is none
find(s, pat) ==
  LET hits == {i \in 1..(Len(s) - Len(pat) + 1) : SubSeq(s, i, i + Len(pat) - 1) = pat}
  IN IF hits = {} THEN 0 ELSE CHOOSE i \in hits : \A j \in hits : i <= j

RECURSIVE replace_all(_, _)
\* str.replace(pat, ""): every occurrence of pat removed
replace_all(s, pat) ==
  LET i == find(s, pat)
  IN IF i = 0 \/ Len(pat) = 0 THEN s
     ELSE SubSeq(s, 1, i - 1) \o replace_all(SubSeq(s, i + Len(pat), Len(s)), pat)

\* str.replacen(pat, "", 1): the first occurrence of pat removed
replacen_first(s, pat) ==
  LET i == find(s, pat)
  IN IF i = 0 THEN s
     ELSE SubSeq(s, 1, i - 1) \o SubSeq(s, i + Len(pat), Len(s))

RECURSIVE split(_)
\* s.split('/'): the pieces between separators, empty pieces included
split(s) ==
  LET i == find(s, <<Sep>>)
  IN IF i = 0 THEN <<s>>
     ELSE <<SubSeq(s, 1, i - 1)>> \o split(SubSeq(s, i + 1, Len(s)))

RECURSIVE join(_)
\* the inverse of split: pieces joined by the separator
join(segs) ==
  IF Len(segs) = 0 THEN <<>>
  ELSE IF Len(segs) = 1 THEN segs[1]
  ELSE segs[1] \o <<Sep>> \o join(Tail(segs))

(***************************************************************************)
(* Path patterns (ParsedPath)                                              *)
(***************************************************************************)
\* one segment of a pattern: literal, named capture (":name") or wildcard ("*name")
parse_segment(seg) ==
  IF Len(seg) > 0 /\ seg[1] = ":" THEN [kind |-> "named", text |-> Tail(seg)]
  ELSE IF Len(seg) > 0 /\ seg[1] = "*" THEN [kind |-> "wild", text |-> Tail(seg)]
  ELSE [kind |-> "lit", text |-> seg]

\* ParsedPath::parse
parse(pattern) ==
  LET segs == split(pattern)
  IN [i \in 1..Len(segs) |-> parse_segment(segs[i])]

RECURSIVE match_from(_, _, _)
\* positional walk of pattern segments against path segments from index i;
\* the result is the set of <<name, value>> captures, or None
match_from(pat, segs, i) ==
  IF i > Len(pat) THEN
    IF i > Len(segs) THEN Some({}) ELSE None
  ELSE IF i > Len(segs) THEN None
  ELSE IF pat[i].kind = "wild" THEN
    IF i = Len(pat) THEN Some({<<pat[i].text, join(SubSeq(segs, i, Len(segs)))>>})
    ELSE None
  ELSE IF pat[i].kind = "lit" /\ pat[i].text # segs[i] THEN None
  ELSE
    LET rest == match_from(pat, segs, i + 1)
    IN IF ~rest.some THEN None
       ELSE IF pat[i].kind = "named" THEN Some(rest.v \cup {<<pat[i].text, segs[i]>>})
       ELSE rest

\* a match that ignores the path segments beyond the pattern's
path_match_prefix(pat, path) ==
  LET segs == split(path)
  IN match_from(pat, SubSeq(segs, 1, IF Len(segs) < Len(pat) THEN Len(segs) ELSE Len(pat)), 1)

\* ParsedPath::path_match
path_match(pat, path) == match_from(pat, split(path), 1)

(***************************************************************************)
(* RouteMethod                                                             *)
(***************************************************************************)
Methods == {"GET", "POST"}

All == [tag |-> "All"]

Method(m) == [tag |-> "Method", m |-> m]

RouteMethods == {All} \cup {Method(m) : m \in Methods}

\* equality that holds for every RouteMethod
method_eq_any(rm, other) == TRUE

\* impl PartialEq<http::Method> for RouteMethod
method_eq(rm, other) ==
  IF rm.tag = "All" THEN TRUE ELSE rm.m = other

(***************************************************************************)
(* Middleware chains                                                       *)
(***************************************************************************)
Mids == {"m1", "m2"}

Ends == {"h1", "h2"}

\* Chain::from(End)
ChainEnd(end) == [tag |-> "End", end |-> end]

\* MidWrap::wrap(mid, chain).into()
wrap(mid, chain) == [tag |-> "Mid", mid |-> mid, rest |-> chain]

\* what each middleware and handler does with one request
Decisions ==
  [Mids -> {"next", "short", "fail"}] \X [Ends -> {"ok", "fail"}]

Ok(by, ext) == [ok |-> TRUE, status |-> 200, body |-> by, by |-> by, post |-> <<>>, ext |-> ext]

Err(by) == [ok |-> FALSE, by |-> by]

RECURSIVE chain_run(_, _, _)
\* Chain::run: the events of one request going through the chain, and the reply
chain_run(chain, ext, dec) ==
  IF chain.tag = "End" THEN
    [events |-> <<[ev |-> "handler", id |-> chain.end]>>,
     reply |-> IF dec[2][chain.end] = "ok" THEN Ok(chain.end, ext) ELSE Err(chain.end)]
  ELSE IF dec[1][chain.mid] = "short" THEN
    [events |-> <<[ev |-> "enter", id |-> chain.mid]>>,
     reply |-> Ok(chain.mid, ext)]
  ELSE IF dec[1][chain.mid] = "fail" THEN
    [events |-> <<[ev |-> "enter", id |-> chain.mid]>>,
     reply |-> Err(chain.mid)]
  ELSE
    LET r == chain_run(chain.rest, ext, dec)
    IN [events |-> <<[ev |-> "enter", id |-> chain.mid]>> \o r.events
                     \o <<[ev |-> "exit", id |-> chain.mid]>>,
        reply |-> IF r.reply.ok
                  THEN [r.reply EXCEPT !.post = @ \o <<chain.mid>>]
                  ELSE r.reply]

(***************************************************************************)
(* Router                                                                  *)
(***************************************************************************)
\* Endpoint::new
Endpoint(method, path, chain) == [method |-> method, path |-> path, chain |-> chain]

\* is_path with the comparison inverted
is_path_inverted(ep, path) == ep.path # path

\* Endpoint::is_path
is_path(ep, path) == ep.path = path

\* reset that removes nothing
reset_keeps_all(eps, path) == eps

\* reset that empties the list
reset_clears(eps, path) == <<>>

\* Router::reset: endpoints.retain(|r| !r.is_path(path))
reset(eps, path) ==
  LET keep(r) == ~is_path(r, path)
  IN SelectSeq(eps, keep)

\* add_handler that forgets the middleware
build_chain_drops_mw(mw, chain) == chain

RECURSIVE build_chain_forward(_, _)
\* add_handler wrapping the middleware in list order, without rev()
build_chain_forward(mw, chain) ==
  IF Len(mw) = 0 THEN chain
  ELSE build_chain_forward(Tail(mw), wrap(Head(mw), chain))

RECURSIVE build_chain(_, _)
\* the loop of Router::add_handler: mw.into_iter().rev() wrapped around the chain
build_chain(mw, chain) ==
  IF Len(mw) = 0 THEN chain
  ELSE build_chain(SubSeq(mw, 1, Len(mw) - 1), wrap(mw[Len(mw)], chain))

\* the 404 fallback of Router::run
NotFound == [ok |-> TRUE, status |-> 404, body |-> "Not found", by |-> "router",
             post |-> <<>>, ext |-> {}]

RECURSIVE scan_any_method(_, _, _, _, _)
\* the loop without the method test
scan_any_method(eps, i, method, path, dec) ==
  IF i > Len(eps) THEN [reply |-> NotFound, events |-> <<>>, served |-> 0, ext |-> {}]
  ELSE
    LET m == path_match(eps[i].path, path)
    IN IF m.some
       THEN LET r == chain_run(eps[i].chain, {m.v}, dec)
            IN [reply |-> r.reply, events |-> r.events, served |-> i, ext |-> {m.v}]
       ELSE scan_any_method(eps, i + 1, method, path, dec)

RECURSIVE scan_last_wins(_, _, _, _, _)
\* the loop that keeps looking after a match and serves the last one
scan_last_wins(eps, i, method, path, dec) ==
  IF i > Len(eps) THEN [reply |-> NotFound, events |-> <<>>, served |-> 0, ext |-> {}]
  ELSE IF ~method_eq(eps[i].method, method) THEN scan_last_wins(eps, i + 1, method, path, dec)
  ELSE
    LET m == path_match(eps[i].path, path)
        later == scan_last_wins(eps, i + 1, method, path, dec)
    IN IF m.some /\ later.served = 0
       THEN LET r == chain_run(eps[i].chain, {m.v}, dec)
            IN [reply |-> r.reply, events |-> r.events, served |-> i, ext |-> {m.v}]
       ELSE later

RECURSIVE scan_no_insert(_, _, _, _, _)
\* the loop that runs the chain without inserting the match
scan_no_insert(eps, i, method, path, dec) ==
  IF i > Len(eps) THEN [reply |-> NotFound, events |-> <<>>, served |-> 0, ext |-> {}]
  ELSE IF ~method_eq(eps[i].method, method) THEN scan_no_insert(eps, i + 1, method, path, dec)
  ELSE
    LET m == path_match(eps[i].path, path)
    IN IF m.some
       THEN LET r == chain_run(eps[i].chain, {}, dec)
            IN [reply |-> r.reply, events |-> r.events, served |-> i, ext |-> {}]
       ELSE scan_no_insert(eps, i + 1, method, path, dec)

RECURSIVE scan_stops_on_method(_, _, _, _, _)
\* the loop that gives up at an endpoint whose pattern matches but whose
\* method differs
scan_stops_on_method(eps, i, method, path, dec) ==
  IF i > Len(eps) THEN [reply |-> NotFound, events |-> <<>>, served |-> 0, ext |-> {}]
  ELSE
    LET m == path_match(eps[i].path, path)
    IN IF m.some /\ ~method_eq(eps[i].method, method)
       THEN [reply |-> NotFound, events |-> <<>>, served |-> 0, ext |-> {}]
       ELSE IF m.some
       THEN LET r == chain_run(eps[i].chain, {m.v}, dec)
            IN [reply |-> r.reply, events |-> r.events, served |-> i, ext |-> {m.v}]
       ELSE scan_stops_on_method(eps, i + 1, method, path, dec)

RECURSIVE scan_next_on_failure(_, _, _, _, _)
\* the loop that tries the following endpoints when a chain fails
scan_next_on_failure(eps, i, method, path, dec) ==
  IF i > Len(eps) THEN [reply |-> NotFound, events |-> <<>>, served |-> 0, ext |-> {}]
  ELSE IF ~method_eq(eps[i].method, method)
  THEN scan_next_on_failure(eps, i + 1, method, path, dec)
  ELSE
    LET m == path_match(eps[i].path, path)
    IN IF m.some /\ chain_run(eps[i].chain, {m.v}, dec).reply.ok
       THEN LET r == chain_run(eps[i].chain, {m.v}, dec)
            IN [reply |-> r.reply, events |-> r.events, served |-> i, ext |-> {m.v}]
       ELSE scan_next_on_failure(eps, i + 1, method, path, dec)

RECURSIVE scan(_, _, _, _, _)
\* the for loop of Router::run over the endpoints from index i on: the reply,
\* the chain events, the index of the endpoint whose chain was run (0 for
\* none) and the extension store of the request when the loop ended
scan(eps, i, method, path, dec) ==
  IF i > Len(eps) THEN [reply |-> NotFound, events |-> <<>>, served |-> 0, ext |-> {}]
  ELSE IF ~method_eq(eps[i].method, method) THEN scan(eps, i + 1, method, path, dec)
  ELSE
    LET m == path_match(eps[i].path, path)
    IN IF m.some
       THEN LET r == chain_run(eps[i].chain, {m.v}, dec)
            IN [reply |-> r.reply, events |-> r.events, served |-> i, ext |-> {m.v}]
       ELSE scan(eps, i + 1, method, path, dec)

\* Router::run for a request (method, full_path); dec, the behaviour of the
\* middleware and handlers, is recorded when a chain was run
run(pre, eps, method, full_path, dec) ==
  IF ~starts_with(full_path, pre)
  THEN [panic |-> TRUE, method |-> method, full_path |-> full_path]
  ELSE
    LET path == replacen_first(full_path, pre)
        r == scan(eps, 1, method, path, dec)
    IN [panic |-> FALSE, method |-> method, full_path |-> full_path,
        dec |-> IF r.served = 0 THEN <<>> ELSE dec,
        path |-> path, reply |-> r.reply, events |-> r.events, served |-> r.served,
        ext |-> r.ext]

\* Router::at without the reset
at_no_reset(eps, pattern) == eps

\* the endpoint list after Router::at(pattern)
at(eps, pattern) == reset(eps, parse(pattern))

\* add_handler that puts the new endpoint first
add_handler_front(eps, method, path, mw, end) ==
  <<Endpoint(method, path, build_chain(mw, ChainEnd(end)))>> \o eps

\* the endpoint list after Router::add_handler
add_handler(eps, method, path, mw, end) ==
  Append(eps, Endpoint(method, path, build_chain(mw, ChainEnd(end))))

(***************************************************************************)
(* Router::run, step by step, for requests dispatched concurrently         *)
(***************************************************************************)
Tasks == {"t1", "t2"}

Idle == [pc |-> "idle"]

\* the call of Router::run: the assertion and the stripped path; the future
\* starts at the first endpoint with the extension store of its request
start(pre, method, full_path, dec) ==
  IF ~starts_with(full_path, pre)
  THEN [pc |-> "panicked", method |-> method, full_path |-> full_path]
  ELSE [pc |-> "scan", method |-> method, full_path |-> full_path, dec |-> dec,
        path |-> replacen_first(full_path, pre), i |-> 1, ext |-> {},
        events |-> <<>>, reply |-> None]

\* req.extensions_mut().insert(m) puts m into every request in flight
insert_ext_shared(ts, t, m) ==
  [u \in DOMAIN ts |-> IF "ext" \in DOMAIN ts[u] THEN [ts[u] EXCEPT !.ext = {m}] ELSE ts[u]]

\* req.extensions_mut().insert(m) for the request of task t
insert_ext(ts, t, m) == [ts EXCEPT ![t].ext = {m}]

\* one turn of the for loop of Router::run for task t
examine(ts, t, eps) ==
  LET k == ts[t]
  IN IF k.i > Len(eps)
     THEN [ts EXCEPT ![t].pc = "done", ![t].i = 0, ![t].reply = Some(NotFound)]
     ELSE IF ~method_eq(eps[k.i].method, k.method) THEN [ts EXCEPT ![t].i = k.i + 1]
     ELSE
       LET m == path_match(eps[k.i].path, k.path)
       IN IF m.some
          THEN [insert_ext(ts, t, m.v) EXCEPT ![t].pc = "chain"]
          ELSE [ts EXCEPT ![t].i = k.i + 1]

\* ep.chain.run(state, req).await completes for task t
await_chain(ts, t, eps) ==
  LET k == ts[t]
      r == chain_run(eps[k.i].chain, k.ext, k.dec)
  IN [ts EXCEPT ![t].pc = "done", ![t].reply = Some(r.reply), ![t].events = r.events]

(***************************************************************************)
(* Inputs                                                                  *)
(***************************************************************************)
PatternA == <<"/", "a">>

PatternN == <<"/", ":", "n">>

PatternW == <<"/", "*", "w">>

PatternStrings == {PatternA, PatternN, PatternW}

Prefixes == { <<>>, <<"/", "a">> }

Paths == { <<"/", "a">>, <<"/", "b">>, <<"/", "a", "/", "a">> }

RECURSIVE SeqsUpTo(_, _)
SeqsUpTo(S, n) ==
  IF n = 0 THEN {<<>>}
  ELSE LET shorter == SeqsUpTo(S, n - 1)
       IN shorter \cup {Append(s, x) : s \in shorter, x \in S}

MwLists == SeqsUpTo(Mids, MaxMw)

\* every middleware calls its continuation; the handlers all succeed or all fail
PassDecisions ==
  {<<[m \in Mids |-> "next"], [e \in Ends |-> o]>> : o \in {"ok", "fail"}}

(***************************************************************************)
(* Router actions                                                          *)
(***************************************************************************)
\* Router::new
InitRouter ==
  /\ prefix = <<>>
  /\ endpoints = <<>>
  /\ route = None
  /\ last = None
  /\ log = <<>>

\* Router::set_prefix
SetPrefix(p) ==
  /\ prefix' = p
  /\ last' = None
  /\ UNCHANGED <<endpoints, route, log>>

\* Router::at: parse, reset, and hand out the Route for the parsed path
At(pattern) ==
  /\ endpoints' = at(endpoints, pattern)
  /\ route' = Some(parse(pattern))
  /\ last' = None
  /\ UNCHANGED <<prefix, log>>

\* Router::add_handler, called through the Route that Router::at returned
AddHandler(method, mw, end) ==
  /\ route.some
  /\ endpoints' = add_handler(endpoints, method, route.v, mw, end)
  /\ last' = None
  /\ UNCHANGED <<prefix, route, log>>

\* the Route is dropped
DropRoute ==
  /\ route.some
  /\ route' = None
  /\ UNCHANGED <<prefix, endpoints, last, log>>

\* one registration: Router::at, one add_handler through the returned Route,
\* and the Route dropped; the arguments are appended to the log
Register(pattern, method, mw, end) ==
  /\ endpoints' = add_handler(at(endpoints, pattern), method, parse(pattern), mw, end)
  /\ route' = None
  /\ last' = None
  /\ log' = Append(log, [pattern |-> pattern, method |-> method, mw |-> mw, end |-> end])
  /\ UNCHANGED prefix

\* Router::at with the returned Route dropped without a handler
AtOnly(pattern) ==
  /\ endpoints' = at(endpoints, pattern)
  /\ route' = None
  /\ last' = None
  /\ log' = Append(log, [pattern |-> pattern, method |-> None, mw |-> <<>>, end |-> None])
  /\ UNCHANGED prefix

\* Router::run on one request
Run(method, full_path, dec) ==
  /\ last' = Some(run(prefix, endpoints, method, full_path, dec))
  /\ UNCHANGED <<prefix, endpoints, route, log>>

InitErrIdle ==
  /\ native = None
  /\ err = None
  /\ class = None
  /\ epc = "idle"

\* no request in flight, no transport, no path matched
InitOther ==
  /\ tasks = [t \in Tasks |-> Idle]
  /\ either = None
  /\ pm = None

Init == InitRouter /\ InitErrIdle /\ InitOther

\* registration through Router::at and Router::add_handler, and dispatch
Next ==
  \/ \E p \in Prefixes : SetPrefix(p) /\ UNCHANGED offRouter
  \/ \E p \in PatternStrings : At(p) /\ UNCHANGED offRouter
  \/ \E m \in RouteMethods, end \in Ends :
       Len(endpoints) < MaxEndpoints /\ AddHandler(m, <<>>, end) /\ UNCHANGED offRouter
  \/ DropRoute /\ UNCHANGED offRouter
  \/ \E m \in Methods, p \in Paths, dec \in PassDecisions : Run(m, p, dec) /\ UNCHANGED offRouter

Spec == Init /\ [][Next]_vars

\* whole registrations (one handler per Route), logged, and dispatch
NextRegister ==
  \/ \E p \in Prefixes : SetPrefix(p) /\ UNCHANGED offRouter
  \/ \E p \in PatternStrings, m \in RouteMethods, end \in Ends :
       Len(log) < MaxRegs /\ Register(p, m, <<>>, end) /\ UNCHANGED offRouter
  \/ \E p \in PatternStrings : Len(log) < MaxRegs /\ AtOnly(p) /\ UNCHANGED offRouter
  \/ \E m \in Methods, p \in Paths, dec \in PassDecisions : Run(m, p, dec) /\ UNCHANGED offRouter

SpecRegister == Init /\ [][NextRegister]_vars

\* one route registered with middleware on a new router, then a catch-all
\* route after it, and dispatch with every behaviour of the middleware and
\* the handlers
NextChain ==
  \/ \E mw \in MwLists, end \in Ends :
       log = <<>> /\ Register(PatternN, All, mw, end) /\ UNCHANGED offRouter
  \/ Len(log) = 1 /\ At(PatternW) /\ UNCHANGED offRouter
  \/ \E end \in Ends :
       /\ Len(log) = 1 /\ Len(endpoints) < MaxEndpoints
       /\ AddHandler(All, <<>>, end) /\ UNCHANGED offRouter
  \/ \E p \in Paths, dec \in Decisions : Run("GET", p, dec) /\ UNCHANGED offRouter

SpecChain == Init /\ [][NextChain]_vars

(***************************************************************************)
(* Concurrent dispatch                                                     *)
(***************************************************************************)
\* no future of Router::run borrows the router
Quiet == \A t \in Tasks : tasks[t].pc = "idle"

\* Router::run is called for a request
Start(t, method, full_path, dec) ==
  /\ tasks[t].pc = "idle"
  /\ tasks' = [tasks EXCEPT ![t] = start(prefix, method, full_path, dec)]
  /\ UNCHANGED <<prefix, endpoints, route, last, log>>

\* the future of task t looks at its next endpoint
Examine(t) ==
  /\ tasks[t].pc = "scan"
  /\ tasks' = examine(tasks, t, endpoints)
  /\ UNCHANGED <<prefix, endpoints, route, last, log>>

\* the chain of task t completes
Await(t) ==
  /\ tasks[t].pc = "chain"
  /\ tasks' = await_chain(tasks, t, endpoints)
  /\ UNCHANGED <<prefix, endpoints, route, last, log>>

\* the caller takes the reply (or the panic) of task t
Collect(t) ==
  /\ tasks[t].pc \in {"done", "panicked"}
  /\ tasks' = [tasks EXCEPT ![t] = Idle]
  /\ UNCHANGED <<prefix, endpoints, route, last, log>>

\* everything but the router and the tasks
offTasks == <<native, err, class, epc, either, pm>>

\* registration while no request is in flight (Router::at takes &mut self),
\* and requests dispatched concurrently
NextConc ==
  \/ \E p \in Prefixes : Quiet /\ SetPrefix(p) /\ UNCHANGED offRouter
  \/ \E p \in {PatternA, PatternN} : Quiet /\ At(p) /\ UNCHANGED offRouter
  \/ \E end \in Ends :
       /\ Quiet /\ Len(endpoints) < MaxEndpoints
       /\ AddHandler(All, <<>>, end) /\ UNCHANGED offRouter
  \/ \E t \in Tasks, p \in {<<"/", "a">>, <<"/", "b">>}, dec \in PassDecisions :
       Start(t, "GET", p, dec) /\ UNCHANGED offTasks
  \/ \E t \in Tasks : Examine(t) /\ UNCHANGED offTasks
  \/ \E t \in Tasks : Await(t) /\ UNCHANGED offTasks
  \/ \E t \in Tasks : Collect(t) /\ UNCHANGED offTasks

SpecConc == Init /\ [][NextConc]_vars

(***************************************************************************)
(* Observations used by the properties                                     *)
(***************************************************************************)
\* the number of endpoints registered for a pattern
Count(eps, path) == Cardinality({i \in DOMAIN eps : eps[i].path = path})

OnePerPattern(eps) ==
  \A i, j \in DOMAIN eps : eps[i].path = eps[j].path => i = j

\* the request path without the leading mount prefix
Stripped(full_path, pre) == SubSeq(full_path, Len(pre) + 1, Len(full_path))

\* an endpoint accepts a request: its method equals the request's and its
\* pattern matches the stripped path
Accepts(ep, method, path) ==
  /\ method_eq(ep.method, method)
  /\ path_match(ep.path, path).some

RECURSIVE ChainMids(_)
\* the middleware of a chain, outermost first
ChainMids(chain) ==
  IF chain.tag = "End" THEN <<>> ELSE <<chain.mid>> \o ChainMids(chain.rest)

RECURSIVE ChainEndOf(_)
\* the terminal handler of a chain
ChainEndOf(chain) ==
  IF chain.tag = "End" THEN chain.end ELSE ChainEndOf(chain.rest)

\* the last dispatch ran to a reply (the prefix assertion held)
Dispatched == last.some /\ ~last.v.panic

LastPath == Stripped(last.v.full_path, prefix)

(***************************************************************************)
(* C1: after any sequence of Router::at and add_handler calls the endpoint *)
(* list holds at most one endpoint per distinct path pattern.              *)
(* This is the claim as stated; two add_handler calls through one Route    *)
(* refute it.                                                              *)
(***************************************************************************)
C1_OnePerPattern == OnePerPattern(endpoints)

(***************************************************************************)
(* C1 (amended): Router::at(P) leaves no endpoint for P, every add_handler *)
(* call appends exactly one endpoint for the pattern of its Route and none *)
(* for any other pattern, and the only step that can leave two endpoints   *)
(* for one pattern is an add_handler call through a Route whose pattern    *)
(* already has an endpoint (a second handler on the same Route).           *)
(***************************************************************************)
C1_OnePerPatternUntilSecondHandler ==
  [][ /\ (route'.some /\ (route' # route \/ Len(endpoints') < Len(endpoints)))
           => Count(endpoints', route'.v) = 0
      /\ Len(endpoints') > Len(endpoints)
           => /\ route.some
              /\ Count(endpoints', route.v) = Count(endpoints, route.v) + 1
              /\ \A p \in PatternStrings :
                   parse(p) # route.v => Count(endpoints', parse(p)) = Count(endpoints, parse(p))
      /\ (OnePerPattern(endpoints) /\ ~OnePerPattern(endpoints'))
           => /\ Len(endpoints') > Len(endpoints)
              /\ route.some
              /\ Count(endpoints, route.v) >= 1
    ]_vars

\* one handler was added through the current Route, next to an endpoint of
\* another pattern, and every pattern has one endpoint
C1_Witness ==
  /\ route.some
  /\ Len(endpoints) = 2
  /\ endpoints[2].path = route.v
  /\ endpoints[1].path # route.v
  /\ OnePerPattern(endpoints)

(***************************************************************************)
(* C2: registering pattern P twice leaves exactly one endpoint for P, with *)
(* the method and the chain of the second registration, whatever the first *)
(* registration's were; a request that only the first registration's       *)
(* method accepted is not served by P's endpoint.                          *)
(***************************************************************************)
\* log entries i < j are two handler registrations of one pattern, j the
\* latest entry for that pattern
RegisteredTwice(i, j) ==
  /\ i < j
  /\ log[i].method # None
  /\ log[j].method # None
  /\ parse(log[i].pattern) = parse(log[j].pattern)
  /\ \A k \in DOMAIN log : k > j => parse(log[k].pattern) # parse(log[j].pattern)

C2_SecondRegistrationWins ==
  \A i, j \in DOMAIN log :
    RegisteredTwice(i, j) =>
      LET P == parse(log[j].pattern)
          idx == {k \in DOMAIN endpoints : endpoints[k].path = P}
      IN /\ Cardinality(idx) = 1
         /\ \A k \in idx :
              /\ endpoints[k].method = log[j].method
              /\ ChainEndOf(endpoints[k].chain) = log[j].end
              /\ ChainMids(endpoints[k].chain) = log[j].mw
         /\ (/\ Dispatched
             /\ method_eq(log[i].method, last.v.method)
             /\ ~method_eq(log[j].method, last.v.method))
              => last.v.served \notin idx

\* P was registered twice with different methods and handlers, and a request
\* that the first registration accepted was dispatched
C2_Witness ==
  \E i, j \in DOMAIN log :
    /\ RegisteredTwice(i, j)
    /\ log[i].method # log[j].method
    /\ log[i].end # log[j].end
    /\ Dispatched
    /\ method_eq(log[i].method, last.v.method)
    /\ ~method_eq(log[j].method, last.v.method)
    /\ path_match(parse(log[i].pattern), LastPath).some

(***************************************************************************)
(* C3: when no endpoint has both a method equal to the request's method    *)
(* and a pattern matching the prefix-stripped path, Router::run replies    *)
(* with status 404 and body "Not found", as a normal response, and runs no *)
(* chain.                                                                  *)
(***************************************************************************)
C3_NotFound ==
  (/\ Dispatched
   /\ \A i \in DOMAIN endpoints : ~Accepts(endpoints[i], last.v.method, LastPath))
    => /\ last.v.reply.ok
       /\ last.v.reply.status = 404
       /\ last.v.reply.body = "Not found"
       /\ last.v.events = <<>>
       /\ last.v.served = 0

\* a dispatch that no endpoint accepts although one endpoint's pattern
\* matches the path (its method differs)
C3_Witness ==
  /\ Dispatched
  /\ \A i \in DOMAIN endpoints : ~Accepts(endpoints[i], last.v.method, LastPath)
  /\ \E i \in DOMAIN endpoints : path_match(endpoints[i].path, LastPath).some
  /\ last.v.reply.status = 404

(***************************************************************************)
(* C4: when two endpoints with distinct patterns both accept the request,  *)
(* Router::run runs the chain of an endpoint at or before the earlier one  *)
(* in the list, never the later one's: the served endpoint is the first    *)
(* accepting one and the events are those of its chain.                    *)
(***************************************************************************)
C4_FirstRegisteredWins ==
  Dispatched =>
    \A i, j \in DOMAIN endpoints :
      (/\ i < j
       /\ endpoints[i].path # endpoints[j].path
       /\ Accepts(endpoints[i], last.v.method, LastPath)
       /\ Accepts(endpoints[j], last.v.method, LastPath))
        => /\ last.v.served \in 1..i
           /\ \A k \in 1..(last.v.served - 1) :
                ~Accepts(endpoints[k], last.v.method, LastPath)
           /\ Len(last.v.events) = 1
           /\ last.v.events[1].id = ChainEndOf(endpoints[last.v.served].chain)

\* two overlapping patterns with different handlers both accept the request
C4_Witness ==
  /\ Dispatched
  /\ Len(endpoints) = 2
  /\ endpoints[1].path # endpoints[2].path
  /\ endpoints[1].chain # endpoints[2].chain
  /\ Accepts(endpoints[1], last.v.method, LastPath)
  /\ Accepts(endpoints[2], last.v.method, LastPath)
  /\ last.v.served = 1

(***************************************************************************)
(* C5: when endpoint P is the first in the list to accept the request, the *)
(* reply of Router::run is exactly the reply of P's chain, and the request *)
(* handed to the chain carries the Match Result of P and nothing from the  *)
(* patterns tried before.                                                  *)
(***************************************************************************)
C5_ServedByFirstAccepting ==
  Dispatched =>
    \A i \in DOMAIN endpoints :
      (/\ Accepts(endpoints[i], last.v.method, LastPath)
       /\ \A k \in 1..(i - 1) : ~Accepts(endpoints[k], last.v.method, LastPath))
        => LET m == path_match(endpoints[i].path, LastPath).v
               r == chain_run(endpoints[i].chain, {m}, last.v.dec)
           IN /\ last.v.served = i
              /\ last.v.ext = {m}
              /\ last.v.reply = r.reply
              /\ last.v.events = r.events
              /\ last.v.reply.ok => last.v.reply.ext = {m}

\* the second endpoint (/:n) serves /b after the first (/a) was tried and did
\* not match; the handler sees n = "b"
C5_Witness ==
  /\ Dispatched
  /\ Len(endpoints) = 2
  /\ endpoints[1].path = parse(PatternA)
  /\ endpoints[2].path = parse(PatternN)
  /\ method_eq(endpoints[1].method, last.v.method)
  /\ last.v.served = 2
  /\ last.v.reply.ok
  /\ last.v.reply.ext = {{<< <<"n">>, <<"b">> >>}}

(***************************************************************************)
(* Observations of a dispatch through the logged route (SpecChain)         *)
(***************************************************************************)
\* the last dispatch was served by the endpoint of the latest registration
ServedLogged ==
  /\ Dispatched
  /\ Len(log) > 0
  /\ last.v.served = 1

LoggedMw == log[Len(log)].mw

LoggedEnd == log[Len(log)].end

\* what middleware k of the logged list decided for the last request
Decided(k) == last.v.dec[1][LoggedMw[k]]

\* middleware k is the first of the list not to call its continuation, and
\* it answers itself
ShortCircuitsAt(k) ==
  /\ k \in 1..Len(LoggedMw)
  /\ Decided(k) = "short"
  /\ \A j \in 1..(k - 1) : Decided(j) = "next"

Enter(id) == [ev |-> "enter", id |-> id]

Exit(id) == [ev |-> "exit", id |-> id]

Handler(id) == [ev |-> "handler", id |-> id]

(***************************************************************************)
(* C6: if middleware mk of the chain m1..mn answers without calling its    *)
(* continuation, then m(k+1)..mn and the handler do not run (the events    *)
(* are the entries of m1..mk and the exits of m(k-1)..m1 only), and the    *)
(* reply is the response mk produced, post-processed by m(k-1)..m1.        *)
(***************************************************************************)
C6_ShortCircuit ==
  ServedLogged =>
    \A k \in 1..Len(LoggedMw) :
      ShortCircuitsAt(k) =>
        /\ last.v.events =
             [e \in 1..(2 * k - 1) |->
                IF e <= k THEN Enter(LoggedMw[e]) ELSE Exit(LoggedMw[2 * k - e])]
        /\ \A e \in DOMAIN last.v.events : last.v.events[e].ev # "handler"
        /\ last.v.reply.ok
        /\ last.v.reply.by = LoggedMw[k]
        /\ last.v.reply.body = LoggedMw[k]
        /\ last.v.reply.post = [e \in 1..(k - 1) |-> LoggedMw[k - e]]

\* the second of two different middleware short-circuits
C6_Witness ==
  /\ ServedLogged
  /\ Len(LoggedMw) = 2
  /\ LoggedMw[1] # LoggedMw[2]
  /\ ShortCircuitsAt(2)
  /\ last.v.reply.by = LoggedMw[2]
  /\ last.v.reply.post = <<LoggedMw[1]>>

(***************************************************************************)
(* C7: for a route registered with middleware [m1..mn] and handler h,      *)
(* where every middleware calls its continuation, one request enters       *)
(* m1..mn in order, then runs h, then leaves mn..m1; the chain built by    *)
(* add_handler has m1 outermost and h innermost.                           *)
(***************************************************************************)
C7_NestedOrder ==
  ServedLogged =>
    LET n == Len(LoggedMw)
    IN /\ ChainMids(endpoints[1].chain) = LoggedMw
       /\ ChainEndOf(endpoints[1].chain) = LoggedEnd
       /\ (\A k \in 1..n : Decided(k) = "next")
            => last.v.events =
                 [e \in 1..(2 * n + 1) |->
                    IF e <= n THEN Enter(LoggedMw[e])
                    ELSE IF e = n + 1 THEN Handler(LoggedEnd)
                    ELSE Exit(LoggedMw[2 * n + 2 - e])]

\* two different middleware, both calling their continuation
C7_Witness ==
  /\ ServedLogged
  /\ LoggedMw = <<"m2", "m1">>
  /\ \A k \in 1..2 : Decided(k) = "next"
  /\ last.v.events = <<Enter("m2"), Enter("m1"), Handler(LoggedEnd), Exit("m1"), Exit("m2")>>

(***************************************************************************)
(* Errors (src/error.rs)                                                   *)
(***************************************************************************)
\* std::io::ErrorKind
IoKinds ==
  {"NotFound", "PermissionDenied", "ConnectionRefused", "ConnectionReset",
   "ConnectionAborted", "NotConnected", "AddrInUse", "AddrNotAvailable",
   "BrokenPipe", "AlreadyExists", "WouldBlock", "InvalidInput", "InvalidData",
   "TimedOut", "WriteZero", "Interrupted", "Other", "UnexpectedEof"}

\* std::io::Error: a kind, and where it came from (the OS or a custom payload)
IoErrors == [kind : IoKinds, repr : {"os", "custom"}]

\* the failures of the layers below, in their own representation
NativeIo == {[layer |-> "io", e |-> e] : e \in IoErrors}

NativeH1 ==
  {[layer |-> "h1", variant |-> v, v |-> [msg |-> "msg"]] : v \in {"User", "Proto", "Http11Parser", "Http"}}
    \cup {[layer |-> "h1", variant |-> "Io", v |-> e] : e \in IoErrors}

NativeH2 ==
  {[layer |-> "h2", kind |-> k, v |-> [reason |-> "reason"]] : k \in {"Proto", "User"}}
    \cup {[layer |-> "h2", kind |-> "Io", v |-> e] : e \in IoErrors}

NativeOther == {[layer |-> l] : l \in {"http", "tls", "dns"}}

Natives == NativeIo \cup NativeH1 \cup NativeH2 \cup NativeOther

\* a variant of enum Error with its payload
Error(variant, v) == [variant |-> variant, v |-> v]

\* Option::unwrap
unwrap(o) == IF o.some THEN o.v ELSE [panic |-> TRUE]

\* h2::Error::is_io
h2_is_io(e) == e.kind = "Io"

\* h2::Error::into_io
h2_into_io(e) == IF e.kind = "Io" THEN Some(e.v) ELSE None

\* Error::is_io
is_io(e) == IF e.variant = "Io" THEN TRUE ELSE FALSE

\* Error::into_io
into_io(e) == IF e.variant = "Io" THEN Some(e.v) ELSE None

\* is_timeout for every I/O error
is_timeout_any_io(e) == e.variant = "Io"

\* Error::is_timeout
is_timeout(e) ==
  IF e.variant = "Io" /\ e.v.kind = "TimedOut" THEN TRUE ELSE FALSE

\* is_retryable that also retries timeouts
is_retryable_with_timeout(e) ==
  IF e.variant = "Io"
  THEN e.v.kind \in {"BrokenPipe", "ConnectionAborted", "ConnectionReset",
                     "Interrupted", "TimedOut"}
  ELSE FALSE

\* Error::is_retryable
is_retryable(e) ==
  IF e.variant = "Io"
  THEN CASE e.v.kind = "BrokenPipe" -> TRUE
         [] e.v.kind = "ConnectionAborted" -> TRUE
         [] e.v.kind = "ConnectionReset" -> TRUE
         [] e.v.kind = "Interrupted" -> TRUE
         [] OTHER -> FALSE
  ELSE FALSE

\* impl From<io::Error> for Error
from_io(e) == Error("Io", e)

\* impl From<h1::Error> for Error
from_h1(e) ==
  CASE e.variant = "User" -> Error("User", e.v)
    [] e.variant = "Proto" -> Error("Proto", e.v)
    [] e.variant = "Io" -> Error("Io", e.v)
    [] e.variant = "Http11Parser" -> Error("Http11Parser", e.v)
    [] e.variant = "Http" -> Error("Http", e.v)

\* the conversion without the reclassification of I/O failures
from_h2_never_io(e) == Error("H2", e)

\* impl From<h2::Error> for Error
from_h2(e) ==
  IF h2_is_io(e) THEN Error("Io", unwrap(h2_into_io(e))) ELSE Error("H2", e)

\* impl From<http::Error> for Error
from_http(e) == Error("Http", e)

\* impl From<TLSError> for Error
from_tls(e) == Error("TlsError", e)

\* impl From<InvalidDNSNameError> for Error
from_dns(e) == Error("DnsName", e)

\* the answers of the three predicates for one error
classify(e) == [io |-> is_io(e), timeout |-> is_timeout(e), retryable |-> is_retryable(e)]

(***************************************************************************)
(* Error actions: a layer fails, the failure is converted, then classified *)
(***************************************************************************)
routerVars == <<prefix, endpoints, route, last, log>>

\* everything but the errors
offErr == <<prefix, endpoints, route, last, log, tasks, either, pm>>

\* a lower layer reports a failure
Raise(n) ==
  /\ epc = "idle"
  /\ native' = Some(n)
  /\ epc' = "raised"
  /\ UNCHANGED <<err, class>>

Converted(e) ==
  /\ err' = Some(e)
  /\ epc' = "converted"
  /\ UNCHANGED <<native, class>>

ConvertIo == epc = "raised" /\ native.v.layer = "io" /\ Converted(from_io(native.v.e))

ConvertH1 == epc = "raised" /\ native.v.layer = "h1" /\ Converted(from_h1(native.v))

ConvertH2 == epc = "raised" /\ native.v.layer = "h2" /\ Converted(from_h2(native.v))

ConvertHttp == epc = "raised" /\ native.v.layer = "http" /\ Converted(from_http(native.v))

ConvertTls == epc = "raised" /\ native.v.layer = "tls" /\ Converted(from_tls(native.v))

ConvertDns == epc = "raised" /\ native.v.layer = "dns" /\ Converted(from_dns(native.v))

\* the caller asks is_io, is_timeout and is_retryable
Classify ==
  /\ epc = "converted"
  /\ class' = Some(classify(err.v))
  /\ epc' = "classified"
  /\ UNCHANGED <<native, err>>

\* the error is consumed
Handled ==
  /\ epc = "classified"
  /\ native' = None
  /\ err' = None
  /\ class' = None
  /\ epc' = "idle"

NextErr ==
  \/ \E n \in Natives : Raise(n) /\ UNCHANGED offErr
  \/ ConvertIo /\ UNCHANGED offErr
  \/ ConvertH1 /\ UNCHANGED offErr
  \/ ConvertH2 /\ UNCHANGED offErr
  \/ ConvertHttp /\ UNCHANGED offErr
  \/ ConvertTls /\ UNCHANGED offErr
  \/ ConvertDns /\ UNCHANGED offErr
  \/ Classify /\ UNCHANGED offErr
  \/ Handled /\ UNCHANGED offErr

SpecErr == Init /\ [][NextErr]_vars

Classified == epc = "classified"

(***************************************************************************)
(* C8: is_retryable is true exactly for the I/O variant with kind broken   *)
(* pipe, connection aborted, connection reset or interrupted; false for    *)
(* every other I/O kind and every other variant.                           *)
(***************************************************************************)
C8_Retryable ==
  Classified =>
    (class.v.retryable <=>
       /\ err.v.variant = "Io"
       /\ err.v.v.kind \in {"BrokenPipe", "ConnectionAborted", "ConnectionReset", "Interrupted"})

\* an interrupted I/O failure is retryable
C8_Witness ==
  /\ Classified
  /\ err.v.variant = "Io"
  /\ err.v.v.kind = "Interrupted"
  /\ class.v.retryable

(***************************************************************************)
(* C9: is_timeout is true exactly for the I/O variant with kind timed out; *)
(* so no error is both a timeout and retryable, and a timeout is an I/O    *)
(* error.                                                                  *)
(***************************************************************************)
C9_Timeout ==
  Classified =>
    /\ class.v.timeout <=> (err.v.variant = "Io" /\ err.v.v.kind = "TimedOut")
    /\ ~(class.v.timeout /\ class.v.retryable)
    /\ class.v.timeout => class.v.io

\* a timed out I/O failure is a timeout and not retryable
C9_Witness ==
  /\ Classified
  /\ err.v.variant = "Io"
  /\ err.v.v.kind = "TimedOut"
  /\ class.v.timeout
  /\ ~class.v.retryable

(***************************************************************************)
(* C10: an HTTP/2 failure converts to the I/O variant, carrying the        *)
(* wrapped I/O error unchanged, iff it wraps an I/O failure, and to the    *)
(* HTTP/2 variant otherwise; the three predicates answer for it as they    *)
(* answer for the same I/O failure converted directly.                     *)
(***************************************************************************)
C10_H2Reclassified ==
  (epc \in {"converted", "classified"} /\ native.v.layer = "h2") =>
    /\ err.v.variant = "Io" <=> native.v.kind = "Io"
    /\ native.v.kind = "Io" => err.v = [variant |-> "Io", v |-> native.v.v]
    /\ native.v.kind # "Io" => err.v = [variant |-> "H2", v |-> native.v]
    /\ (Classified /\ native.v.kind = "Io") => class.v = classify(from_io(native.v.v))

\* a connection reset surfaced through the HTTP/2 layer is retryable I/O
C10_Witness ==
  /\ Classified
  /\ native.v.layer = "h2"
  /\ native.v.kind = "Io"
  /\ native.v.v.kind = "ConnectionReset"
  /\ class.v = [io |-> TRUE, timeout |-> FALSE, retryable |-> TRUE]

(***************************************************************************)
(* C11: RouteMethod::All equals every method and RouteMethod::Method(m)    *)
(* equals m only; an endpoint whose RouteMethod does not equal the         *)
(* request's method is never the one served, whatever its pattern.         *)
(***************************************************************************)
\* RouteMethod rm is All, or Method(m) for the request's own method m
SameMethod(rm, m) == rm = All \/ rm = Method(m)

C11_RouteMethodEquality ==
  /\ \A i \in DOMAIN endpoints : \A m \in Methods :
       method_eq(endpoints[i].method, m) <=> SameMethod(endpoints[i].method, m)
  /\ Dispatched =>
       /\ last.v.served # 0 => SameMethod(endpoints[last.v.served].method, last.v.method)
       /\ \A i \in DOMAIN endpoints :
            ~SameMethod(endpoints[i].method, last.v.method) => last.v.served # i

\* the first endpoint is for another method although its pattern matches;
\* the second, for every method, serves the request
C11_Witness ==
  /\ Dispatched
  /\ Len(endpoints) = 2
  /\ endpoints[1].method = Method("GET")
  /\ last.v.method = "POST"
  /\ path_match(endpoints[1].path, LastPath).some
  /\ endpoints[2].method = All
  /\ last.v.served = 2

(***************************************************************************)
(* C12: a request whose path begins with the mount prefix is matched       *)
(* against the path with that one leading occurrence of the prefix         *)
(* removed, later occurrences kept; a request whose path does not begin    *)
(* with the prefix fails the assertion and gets no reply.                  *)
(***************************************************************************)
\* the path begins with the prefix
BeginsWith(full_path, pre) ==
  /\ Len(pre) <= Len(full_path)
  /\ \A k \in 1..Len(pre) : full_path[k] = pre[k]

C12_PrefixStripped ==
  last.some =>
    IF BeginsWith(last.v.full_path, prefix)
    THEN /\ ~last.v.panic
         /\ prefix \o last.v.path = last.v.full_path
         /\ last.v.served # 0 =>
              path_match(endpoints[last.v.served].path, LastPath).some
         /\ last.v.served = 0 =>
              \A i \in DOMAIN endpoints : ~Accepts(endpoints[i], last.v.method, LastPath)
    ELSE /\ last.v.panic
         /\ "reply" \notin DOMAIN last.v
         /\ "served" \notin DOMAIN last.v

\* under prefix /a the path /a/a is matched as /a: the second /a is kept
C12_Witness ==
  /\ Dispatched
  /\ prefix = <<"/", "a">>
  /\ last.v.full_path = <<"/", "a", "/", "a">>
  /\ last.v.path = <<"/", "a">>
  /\ last.v.served # 0
  /\ endpoints[last.v.served].path = parse(PatternA)

(***************************************************************************)
(* C19: an endpoint whose pattern matches the path but whose method        *)
(* differs neither serves the request nor stops the scan: a later          *)
(* accepting endpoint serves it, and when every endpoint whose pattern     *)
(* matches has another method the reply is the 404 "Not found" fallback.   *)
(***************************************************************************)
\* the pattern of the endpoint matches, its method differs
WrongMethodOnly(ep) ==
  /\ path_match(ep.path, LastPath).some
  /\ ~method_eq(ep.method, last.v.method)

C19_MethodMismatchSkipped ==
  Dispatched =>
    /\ \A i \in DOMAIN endpoints : WrongMethodOnly(endpoints[i]) => last.v.served # i
    /\ \A i, j \in DOMAIN endpoints :
         (/\ i < j
          /\ WrongMethodOnly(endpoints[i])
          /\ Accepts(endpoints[j], last.v.method, LastPath))
           => /\ last.v.served \in 1..j
              /\ last.v.reply # NotFound
    /\ (/\ \E i \in DOMAIN endpoints : WrongMethodOnly(endpoints[i])
        /\ \A i \in DOMAIN endpoints :
             path_match(endpoints[i].path, LastPath).some => WrongMethodOnly(endpoints[i]))
         => /\ last.v.reply = NotFound
            /\ last.v.reply.status = 404
            /\ last.v.reply.body = "Not found"

\* /a is registered for GET only and /:n for POST: POST /a is served by /:n
C19_Witness ==
  /\ Dispatched
  /\ Len(endpoints) = 2
  /\ endpoints[1] = Endpoint(Method("GET"), parse(PatternA), ChainEnd("h1"))
  /\ endpoints[2] = Endpoint(Method("POST"), parse(PatternN), ChainEnd("h2"))
  /\ last.v.method = "POST"
  /\ LastPath = <<"/", "a">>
  /\ last.v.served = 2
  /\ last.v.reply.ok
  /\ last.v.reply.body = "h2"

(***************************************************************************)
(* C16: a dispatch runs the chain of the first accepting endpoint, once,   *)
(* and returns its result as it is, success or failure: no later endpoint  *)
(* is tried, nothing is retried, and a failing handler or middleware does  *)
(* not turn into the 404 fallback.                                         *)
(***************************************************************************)
\* the number of times a handler ran in the events
HandlerRuns(events) == Cardinality({e \in DOMAIN events : events[e].ev = "handler"})

\* the ids of the middleware and the handler of a chain
ChainIds(chain) == {ChainMids(chain)[k] : k \in DOMAIN ChainMids(chain)} \cup {ChainEndOf(chain)}

C16_OneChainNoRecovery ==
  Dispatched =>
    \A i \in DOMAIN endpoints :
      (/\ Accepts(endpoints[i], last.v.method, LastPath)
       /\ \A k \in 1..(i - 1) : ~Accepts(endpoints[k], last.v.method, LastPath))
        => LET chain == endpoints[i].chain
               r == chain_run(chain, last.v.ext, last.v.dec)
           IN /\ last.v.served = i
              /\ last.v.reply = r.reply
              /\ last.v.events = r.events
              /\ last.v.reply # NotFound
              /\ HandlerRuns(last.v.events) <= 1
              /\ Len(last.v.events) <= 2 * Len(ChainMids(chain)) + 1
              /\ \A e \in DOMAIN last.v.events : last.v.events[e].id \in ChainIds(chain)
              /\ last.v.reply.by \in ChainIds(chain)

\* the middleware of the first route fails although the catch-all route
\* after it accepts the request too: the failure is the reply
C16_Witness ==
  /\ Dispatched
  /\ Len(endpoints) = 2
  /\ Accepts(endpoints[1], last.v.method, LastPath)
  /\ Accepts(endpoints[2], last.v.method, LastPath)
  /\ Len(ChainMids(endpoints[1].chain)) = 2
  /\ last.v.served = 1
  /\ ~last.v.reply.ok
  /\ last.v.reply.by = ChainMids(endpoints[1].chain)[2]
  /\ last.v.events = <<Enter(ChainMids(endpoints[1].chain)[1]),
                       Enter(ChainMids(endpoints[1].chain)[2]),
                       Exit(ChainMids(endpoints[1].chain)[1])>>

(***************************************************************************)
(* C13: under any interleaving of concurrent dispatches, a dispatch step   *)
(* changes neither the prefix nor the endpoint list, every request gets    *)
(* the reply it would get if dispatched alone, and a Match Result is found *)
(* only in the extension store of the request it was computed for.         *)
(***************************************************************************)
\* the request of task t dispatched alone on the router as it is
Alone(t) == run(prefix, endpoints, tasks[t].method, tasks[t].full_path, tasks[t].dec)

C13_TasksIndependent ==
  \A t \in Tasks :
    /\ tasks[t].pc = "done" =>
         /\ tasks[t].reply = Some(Alone(t).reply)
         /\ tasks[t].events = Alone(t).events
         /\ tasks[t].ext = Alone(t).ext
    /\ tasks[t].pc = "panicked" => Alone(t).panic
    /\ tasks[t].pc \in {"scan", "chain", "done"} =>
         \/ tasks[t].ext = {}
         \/ /\ tasks[t].i \in DOMAIN endpoints
            /\ tasks[t].pc \in {"chain", "done"}
            /\ tasks[t].ext = {path_match(endpoints[tasks[t].i].path,
                                          Stripped(tasks[t].full_path, prefix)).v}

C13_NoInterference ==
  /\ []C13_TasksIndependent
  /\ [][tasks' # tasks => UNCHANGED <<prefix, endpoints>>]_vars

\* two requests in flight for /a and /b on /:n: one is done, seeing n = "a",
\* while the other holds n = "b" and waits for its chain
C13_Witness ==
  /\ tasks["t1"].pc = "done"
  /\ tasks["t1"].ext = {{<< <<"n">>, <<"a">> >>}}
  /\ tasks["t1"].reply.v.ok
  /\ tasks["t2"].pc = "chain"
  /\ tasks["t2"].ext = {{<< <<"n">>, <<"b">> >>}}

(***************************************************************************)
(* Transport union (src/either.rs)                                         *)
(***************************************************************************)
Variants == {"A", "B"}

\* the buffers handed to poll_read and poll_write
Bufs == {<<7>>, <<7, 9>>}

NoBuf == <<>>

Pending == [poll |-> "Pending"]

Ready(n) == [poll |-> "Ready", n |-> n]

ReadyErr(kind) == [poll |-> "ReadyErr", kind |-> kind]

\* what the stream of a variant may answer to a byte operation on buf
IoResults(buf) ==
  {Pending, ReadyErr("BrokenPipe")} \cup {Ready(n) : n \in 0..Len(buf)}

\* what it may answer to poll_next: pending, an item, or the end (no item)
NextResults == {Pending, Ready(1), [poll |-> "ReadyNone"]}

\* a stream that has not been polled
Fresh == [calls |-> 0, op |-> "none", buf |-> NoBuf]

\* the stream is polled with op and buf
polled(stream, op, buf) == [calls |-> stream.calls + 1, op |-> op, buf |-> buf]

\* Either::A(a) or Either::B(b)
new_either(tag) == [tag |-> tag, a |-> Fresh, b |-> Fresh]

\* match self.get_mut() { Either::A(a) => Pin::new(a).op(cx, buf),
\*                        Either::B(b) => Pin::new(b).op(cx, buf) }
\* with res the answer of the stream polled
forward(e, op, buf, res) ==
  IF e.tag = "A"
  THEN [e |-> [e EXCEPT !.a = polled(e.a, op, buf)], ret |-> res]
  ELSE [e |-> [e EXCEPT !.b = polled(e.b, op, buf)], ret |-> res]

\* AsyncRead::poll_read for Either
poll_read(e, buf, res) == forward(e, "poll_read", buf, res)

\* AsyncWrite::poll_write for Either
poll_write(e, buf, res) == forward(e, "poll_write", buf, res)

\* AsyncWrite::poll_flush for Either
poll_flush(e, buf, res) == forward(e, "poll_flush", buf, res)

\* poll_close that flushes the stream instead of closing it
poll_close_flushes(e, buf, res) == forward(e, "poll_flush", buf, res)

\* AsyncWrite::poll_close for Either
poll_close(e, buf, res) == forward(e, "poll_close", buf, res)

\* FutStream::poll_next for Either
poll_next(e, buf, res) == forward(e, "poll_next", buf, res)

(***************************************************************************)
(* Transport union actions                                                 *)
(***************************************************************************)
\* everything but the transport union
offEither == <<prefix, endpoints, route, last, log, native, err, class, epc, tasks, pm>>

\* a union value is constructed around a stream of one variant
Construct(tag) ==
  /\ ~either.some
  /\ either' = Some([made |-> tag, e |-> new_either(tag), asked |-> None, ret |-> None])

\* the state after one operation: the union, what was asked of it and with
\* which answer of the stream, and what it returned
Polled(op, buf, res, out) ==
  /\ either.some
  /\ either.v.e.a.calls + either.v.e.b.calls < MaxCalls
  /\ either' = Some([made |-> either.v.made, e |-> out.e,
                     asked |-> Some([op |-> op, buf |-> buf, res |-> res]),
                     ret |-> Some(out.ret)])

PollRead(buf, res) == Polled("poll_read", buf, res, poll_read(either.v.e, buf, res))

PollWrite(buf, res) == Polled("poll_write", buf, res, poll_write(either.v.e, buf, res))

PollFlush(res) == Polled("poll_flush", NoBuf, res, poll_flush(either.v.e, NoBuf, res))

PollClose(res) == Polled("poll_close", NoBuf, res, poll_close(either.v.e, NoBuf, res))

PollNext(res) == Polled("poll_next", NoBuf, res, poll_next(either.v.e, NoBuf, res))

\* the union value is dropped
DropEither ==
  /\ either.some
  /\ either' = None

NextEither ==
  \/ \E tag \in Variants : Construct(tag) /\ UNCHANGED offEither
  \/ \E buf \in Bufs : \E res \in IoResults(buf) : PollRead(buf, res) /\ UNCHANGED offEither
  \/ \E buf \in Bufs : \E res \in IoResults(buf) : PollWrite(buf, res) /\ UNCHANGED offEither
  \/ \E res \in IoResults(NoBuf) : PollFlush(res) /\ UNCHANGED offEither
  \/ \E res \in IoResults(NoBuf) : PollClose(res) /\ UNCHANGED offEither
  \/ \E res \in NextResults : PollNext(res) /\ UNCHANGED offEither
  \/ DropEither /\ UNCHANGED offEither

SpecEither == Init /\ [][NextEither]_vars

(***************************************************************************)
(* C14: after any sequence of read, write, flush, close and next-item      *)
(* polls the active variant is the one the union was constructed with;     *)
(* every operation reaches the same-named operation of the active variant  *)
(* with the same buffer, its answer is returned unchanged, and the other   *)
(* variant is never polled.                                                *)
(***************************************************************************)
\* the stream of the variant the union was constructed with, and the other
ActiveStream == IF either.v.made = "A" THEN either.v.e.a ELSE either.v.e.b

InactiveStream == IF either.v.made = "A" THEN either.v.e.b ELSE either.v.e.a

C14_ForwardedToActive ==
  either.some =>
    /\ either.v.e.tag = either.v.made
    /\ InactiveStream = Fresh
    /\ either.v.asked.some =>
         /\ ActiveStream.op = either.v.asked.v.op
         /\ ActiveStream.buf = either.v.asked.v.buf
         /\ ActiveStream.calls >= 1
         /\ either.v.ret = Some(either.v.asked.v.res)

\* a union made with variant B was polled twice, last to close with an
\* error, which it returned; variant A was never polled
C14_Witness ==
  /\ either.some
  /\ either.v.made = "B"
  /\ either.v.e.b.calls = 2
  /\ either.v.e.b.op = "poll_close"
  /\ either.v.e.a = Fresh
  /\ either.v.ret = Some(ReadyErr("BrokenPipe"))

(***************************************************************************)
(* Path matching on its own                                                *)
(***************************************************************************)
PatternHelloName == <<"/", "h", "e", "l", "l", "o", "/", ":", "n", "a", "m", "e">>

PathHelloWorld == <<"/", "h", "e", "l", "l", "o", "/", "w", "o", "r", "l", "d">>

PathHello == <<"/", "h", "e", "l", "l", "o">>

MatchPatterns ==
  { <<"/", "h">>, <<"/", "h", "/", "w">>, <<"/", "h", "/", ":", "n">>,
    <<"/", ":", "n", "/", ":", "m">>, <<"/", "h", "/", "*", "r">>,
    <<"/", ":", "n", "/", "*", "r">>, PatternHelloName }

PathChars == {Sep, "h", "w"}

\* request paths: a separator followed by up to MaxPathLen characters
MatchPaths ==
  {<<Sep>> \o s : s \in SeqsUpTo(PathChars, MaxPathLen)} \cup {PathHelloWorld, PathHello}

\* everything but the path match
offMatch == <<prefix, endpoints, route, last, log, native, err, class, epc, tasks, either>>

\* ep.path.path_match(&path) for one pattern and one path
Match(pattern, path) ==
  /\ ~pm.some
  /\ pm' = Some([pattern |-> pattern, path |-> path, m |-> path_match(parse(pattern), path)])

\* the match result is produced fresh per match: the previous one is gone
ForgetMatch ==
  /\ pm.some
  /\ pm' = None

NextMatch ==
  \/ \E pattern \in MatchPatterns, path \in MatchPaths : Match(pattern, path) /\ UNCHANGED offMatch
  \/ ForgetMatch /\ UNCHANGED offMatch

SpecMatch == Init /\ [][NextMatch]_vars

\* the segments of a path, read off the positions of its separators
SepPositions(path) == {i \in 1..Len(path) : path[i] = Sep}

SegCount(path) == Cardinality(SepPositions(path)) + 1

\* position of the k-th separator; 0 before the first, Len + 1 after the last
SepAt(path, k) ==
  IF k = 0 THEN 0
  ELSE IF k > Cardinality(SepPositions(path)) THEN Len(path) + 1
  ELSE CHOOSE i \in SepPositions(path) :
         Cardinality({j \in SepPositions(path) : j <= i}) = k

Seg(path, k) == SubSeq(path, SepAt(path, k - 1) + 1, SepAt(path, k) - 1)

\* the path from its k-th segment on, separators included
Remainder(path, k) == SubSeq(path, SepAt(path, k - 1) + 1, Len(path))

HasWild(pat) == pat[Len(pat)].kind = "wild"

\* the named captures of the first n pattern segments
NamedCaptures(pat, path, n) ==
  {<<pat[i].text, Seg(path, i)>> : i \in {j \in 1..n : pat[j].kind = "named"}}

LiteralsAgree(pat, path, n) ==
  \A i \in 1..n : pat[i].kind = "lit" => pat[i].text = Seg(path, i)

(***************************************************************************)
(* C15: matching is positional.  A pattern without a trailing wildcard     *)
(* matches a path iff both have the same number of segments and every      *)
(* literal segment equals the path segment at its position, and the match  *)
(* result maps each named capture to the path segment at its position      *)
(* (/hello/:name against /hello/world gives {name: world}, against /hello  *)
(* no match); a trailing wildcard captures the whole remaining path,       *)
(* separators included, as one value.                                      *)
(***************************************************************************)
C15_PositionalMatch ==
  pm.some =>
    LET pat == parse(pm.v.pattern)
        path == pm.v.path
        m == pm.v.m
        n == Len(pat)
    IN /\ ~HasWild(pat) =>
            /\ m.some <=> (SegCount(path) = n /\ LiteralsAgree(pat, path, n))
            /\ m.some => m.v = NamedCaptures(pat, path, n)
       /\ (HasWild(pat) /\ m.some) =>
            /\ LiteralsAgree(pat, path, n - 1)
            /\ m.v = NamedCaptures(pat, path, n - 1)
                       \cup {<<pat[n].text, Remainder(path, n)>>}
       /\ (pm.v.pattern = PatternHelloName /\ path = PathHelloWorld) =>
            m = Some({<<(<<"n", "a", "m", "e">>), (<<"w", "o", "r", "l", "d">>)>>})
       /\ (pm.v.pattern = PatternHelloName /\ path = PathHello) => m = None

\* /:n/*r matched /w/h/: n is "w" and r is "h/", separator included
C15_Witness ==
  /\ pm.some
  /\ pm.v.pattern = <<"/", ":", "n", "/", "*", "r">>
  /\ pm.v.path = <<"/", "w", "/", "h", "/">>
  /\ pm.v.m = Some({<<(<<"n">>), (<<"w">>)>>, <<(<<"r">>), (<<"h", "/">>)>>})

(***************************************************************************)
(* Registration order                                                      *)
(***************************************************************************)
\* every middleware calls its continuation and every handler succeeds
AllOk == <<[m \in Mids |-> "next"], [e \in Ends |-> "ok"]>>

\* registrations and bare Router::at calls on a new router, logged, and
\* dispatch of GET requests
NextOrder ==
  \/ \E p \in PatternStrings, end \in Ends :
       Len(log) < MaxOrderRegs /\ Register(p, All, <<>>, end) /\ UNCHANGED offRouter
  \/ \E p \in PatternStrings : Len(log) < MaxOrderRegs /\ AtOnly(p) /\ UNCHANGED offRouter
  \/ \E p \in Paths : Run("GET", p, AllOk) /\ UNCHANGED offRouter

SpecOrder == Init /\ [][NextOrder]_vars

\* the step is a logged call for the pattern of entry e
Logged(e) == log' = Append(log, e)

\* the entry the step appends to the log
NewEntry == log'[Len(log')]

\* positions of the endpoints of eps whose pattern is not path
KeptIdx(eps, path) == {i \in 1..Len(eps) : eps[i].path # path}

\* new is old without the endpoints of pattern path: the others are all
\* there, unchanged and in their order
IsFilter(new, old, path) ==
  /\ Len(new) = Cardinality(KeptIdx(old, path))
  /\ \A i \in KeptIdx(old, path) :
       new[Cardinality({j \in KeptIdx(old, path) : j <= i})] = old[i]

\* positions of the endpoints that accept a request: method and path match
Accepting(eps, method, path) ==
  {i \in 1..Len(eps) : method_eq(eps[i].method, method) /\ path_match(eps[i].path, path).some}

Lowest(S) == CHOOSE i \in S : \A j \in S : i <= j

(***************************************************************************)
(* C17: Router::at(P) removes exactly the endpoints whose pattern equals   *)
(* P: every endpoint of another pattern is kept unchanged and the kept     *)
(* endpoints keep their relative order; add_handler appends one endpoint   *)
(* at the end and changes no existing endpoint.                            *)
(***************************************************************************)
C17_AtStep ==
  (Len(log') = Len(log) + 1 /\ Logged(NewEntry) /\ NewEntry.method = None) =>
    IsFilter(endpoints', endpoints, parse(NewEntry.pattern))

C17_RegisterStep ==
  (Len(log') = Len(log) + 1 /\ Logged(NewEntry) /\ NewEntry.method # None) =>
    LET P == parse(NewEntry.pattern)
        k == Cardinality(KeptIdx(endpoints, P))
    IN /\ Len(endpoints') = k + 1
       /\ IsFilter(SubSeq(endpoints', 1, k), endpoints, P)
       /\ endpoints'[k + 1].path = P
       /\ endpoints'[k + 1].method = NewEntry.method
       /\ endpoints'[k + 1].chain = ChainEnd(NewEntry.end)

C17_RemovesExactlyP == [][C17_AtStep /\ C17_RegisterStep]_vars

\* /a, /:n and /*w were registered in this order and Router::at(/:n) called:
\* the endpoints of /a and /*w are left, in this order
C17_Witness ==
  /\ Len(log) = 4
  /\ log[1].pattern = PatternA /\ log[1].method = All
  /\ log[2].pattern = PatternN /\ log[2].method = All
  /\ log[3].pattern = PatternW /\ log[3].method = All
  /\ log[4].pattern = PatternN /\ log[4].method = None
  /\ Len(endpoints) = 2
  /\ endpoints[1] = Endpoint(All, parse(PatternA), ChainEnd(log[1].end))
  /\ endpoints[2] = Endpoint(All, parse(PatternW), ChainEnd(log[3].end))

(***************************************************************************)
(* C18: registering a pattern P again moves its endpoint to the end of the *)
(* scan order: a request that P's endpoint served, and that an endpoint of *)
(* another pattern Q after it also accepts, is served by Q's chain once P  *)
(* is registered again.                                                    *)
(***************************************************************************)
C18_Step(path) ==
  LET P == parse(NewEntry.pattern)
      acc == Accepting(endpoints, "GET", path)
      others == {i \in acc : endpoints[i].path # P}
      before == run(prefix, endpoints, "GET", path, AllOk)
      after == run(prefix, endpoints', "GET", path, AllOk)
  IN (/\ Len(log') = Len(log) + 1 /\ Logged(NewEntry) /\ NewEntry.method # None
      /\ acc # {} /\ endpoints[Lowest(acc)].path = P
      /\ others # {}) =>
       /\ before.served = Lowest(acc)
       /\ ~after.panic
       /\ after.served # 0
       /\ after.served < Len(endpoints')
       /\ endpoints'[after.served] = endpoints[Lowest(others)]
       /\ after.events = <<[ev |-> "handler", id |-> endpoints[Lowest(others)].chain.end]>>
       /\ endpoints'[Len(endpoints')].path = P

C18_ReRegistrationMovesLast == [][\A path \in Paths : C18_Step(path)]_vars

\* /:n was registered with h1, /a with h2, then /:n again with h1: GET /a,
\* which both accept, was served by h2, the first of the two endpoints
C18_Witness ==
  /\ Len(log) = 3
  /\ log[1].pattern = PatternN /\ log[1].method = All /\ log[1].end = "h1"
  /\ log[2].pattern = PatternA /\ log[2].method = All /\ log[2].end = "h2"
  /\ log[3].pattern = PatternN /\ log[3].method = All /\ log[3].end = "h1"
  /\ last.some /\ ~last.v.panic
  /\ last.v.path = <<"/", "a">>
  /\ last.v.served = 1
  /\ last.v.reply.by = "h2"
  /\ endpoints[2].path = parse(PatternN)

(***************************************************************************)
(* C20: Router::at(P) without a handler added afterwards already removes   *)
(* every endpoint for P: a request that only P's endpoints accepted gets   *)
(* the 404 "Not found" reply from then on.                                 *)
(***************************************************************************)
C20_Step(path) ==
  LET P == parse(NewEntry.pattern)
      acc == Accepting(endpoints, "GET", path)
      before == run(prefix, endpoints, "GET", path, AllOk)
      after == run(prefix, endpoints', "GET", path, AllOk)
  IN (/\ Len(log') = Len(log) + 1 /\ Logged(NewEntry) /\ NewEntry.method = None) =>
       /\ \A i \in 1..Len(endpoints') : endpoints'[i].path # P
       /\ (acc # {} /\ \A i \in acc : endpoints[i].path = P) =>
            /\ before.served \in acc
            /\ before.reply.status = 200
            /\ ~after.panic
            /\ after.served = 0
            /\ after.reply = NotFound

C20_AtAloneRemoves == [][\A path \in Paths : C20_Step(path)]_vars

\* /a and /*w were registered and Router::at(/*w) called with no handler
\* added: GET /a/a, which only /*w accepted, got the 404 reply
C20_Witness ==
  /\ Len(log) = 3
  /\ log[1].pattern = PatternA /\ log[1].method = All
  /\ log[2].pattern = PatternW /\ log[2].method = All
  /\ log[3].pattern = PatternW /\ log[3].method = None
  /\ Len(endpoints) = 1
  /\ last.some /\ ~last.v.panic
  /\ last.v.path = <<"/", "a", "/", "a">>
  /\ last.v.served = 0
  /\ last.v.reply = NotFound

====
